---- MODULE Spec2Model ----
(***************************************************************************)
(* AXI-lite RAM slave model of cocotbext/axi/axil_ram.py:                  *)
(* AxiLiteRamWrite, AxiLiteRamRead and the composite AxiLiteRam.           *)
(*                                                                         *)
(* The channel endpoints (axil_channels), the backing store (memory) and   *)
(* the reset notifier (reset) are not part of axil_ram.py; they are        *)
(* modelled from the specification's contracts for them (sections 3, 4.1,  *)
(* 4.4 and 6).                                                             *)
(***************************************************************************)
EXTENDS Integers, Sequences, FiniteSets, TLC

\* ---------------------------------------------------------------- bounds
MemSize == 3      \* bytes in the store (size argument)
MaxBeats == 4     \* beats admitted on the sink channels in one behaviour
MaxResets == 1    \* reset assertions in one behaviour
MaxForks == MaxResets + 1   \* coroutines forked per engine in one behaviour

\* ------------------------------------------------- configuration (__init__)
width == 16                              \* len(bus.w.wdata), len(bus.r.rdata)
byte_size == 8
byte_lanes == width \div byte_size
strb_mask == 2^byte_lanes - 1
size == MemSize                          \* self.size = len(self.mem)
\* the limit left unset: the sinks admit whatever the master issues
no_occupancy_limit == MaxBeats + 1

queue_occupancy_limit == 2

\* AxiResp
OKAY == "OKAY"
SLVERR == "SLVERR"

None == 0                                \* an empty coroutine handle

\* what the master presents: addresses below and beyond the store size,
\* aligned and not; two data words whose bytes all differ; every strobe
D1 == 259 % (2^width)
D2 == 518 % (2^width)
Addrs == 0..(size + byte_lanes - 1)
DataVals == {D1, D2}
Strbs == 0..strb_mask

VARIABLES
    mems,         \* the store objects, each [bytes : 0..size-1 -> 0..255, pos]
    aw_queue, w_queue, b_queue,   \* write-side channel queues
    ar_queue, r_queue,            \* read-side channel queues
    write_cr,     \* _process_write_cr : None or the id of the forked task
    read_cr,      \* _process_read_cr
    w_tasks,      \* every write coroutine forked so far, by id
    r_tasks,      \* every read coroutine forked so far, by id
    w_note,       \* reset notification not yet handled by the write side
    r_note,       \* reset notification not yet handled by the read side
    w_epoch,      \* history: reset assertions handled by the write side
    r_epoch,      \* history: reset assertions handled by the read side
    w_last,       \* history: the last notification the write side handled
    r_last,       \* history: the last notification the read side handled
    aw_n, w_n, ar_n,              \* history: beats admitted per sink
    b_log, r_log, \* history: beats transmitted to the master
    full_word,    \* history: per store offset, the data word a full-strobe
                  \* write put in the byte_lanes run there, while intact
    w_base,       \* history: the address and data beats admitted before
                  \* the last reset assertion the write side handled
    bus,          \* the signal widths of the bus handed to the constructor
    ctor          \* AxiLiteRam.__init__: where it is, and the engines built

vars == <<mems, aw_queue, w_queue, b_queue, ar_queue, r_queue, write_cr,
          read_cr, w_tasks, r_tasks, w_note, r_note, w_epoch, r_epoch,
          w_last, r_last, aw_n, w_n, ar_n, b_log, r_log, full_word,
          w_base, bus, ctor>>

ctor_vars == <<bus, ctor>>

write_vars == <<aw_queue, w_queue, b_queue, write_cr, w_tasks, w_epoch,
                aw_n, w_n, b_log, full_word, w_base>>
read_vars == <<ar_queue, r_queue, read_cr, r_tasks, r_epoch, ar_n, r_log>>

NoTag == [ep |-> 0, n |-> 0]
NoWord == 0 - 1
Min(a, b) == IF a < b THEN a ELSE b
Last(s) == s[Len(s)]

\* ------------------------------------------------------ the backing store
\* A fixed-size byte sequence with a position; an access at an offset wraps
\* modulo the store size.
mem_seek(m, off) == [m EXCEPT !.pos = off % size]

mem_seek_cur(m, n) == [m EXCEPT !.pos = (m.pos + n) % size]

mem_write(m, b) ==
    [bytes |-> [m.bytes EXCEPT ![m.pos] = b], pos |-> (m.pos + 1) % size]

mem_read_data(m, n) == [i \in 1..n |-> m.bytes[(m.pos + i - 1) % size]]

mem_read(m, n) == [m EXCEPT !.pos = (m.pos + n) % size]

\* ------------------------------------------------------- pure conversions
\* int.to_bytes(n, 'little')
RECURSIVE to_bytes(_, _)
to_bytes(d, n) ==
    IF n = 0 THEN <<>> ELSE <<d % 256>> \o to_bytes(d \div 256, n - 1)

\* int.from_bytes(data, 'little')
RECURSIVE from_bytes(_)
from_bytes(s) ==
    IF s = <<>> THEN 0 ELSE Head(s) + 256 * from_bytes(Tail(s))

\* addr = (int(aw.awaddr) // self.byte_lanes) * self.byte_lanes
align_floor_bug(a) == a

align(a) == (a \div byte_lanes) * byte_lanes

\* strb & (1 << i)
strb_bit(strb, i) == (strb \div (2^i)) % 2 = 1

\* self.mem.seek(addr % self.size)
seek_offset(addr) == addr % size

\* for i in range(self.byte_lanes): write the byte or skip it
RECURSIVE write_lanes_from(_, _, _, _)
write_lanes_from(m, data, strb, i) ==
    IF i = byte_lanes THEN m
    ELSE write_lanes_from(IF strb_bit(strb, i)
                             THEN mem_write(m, data[i + 1])
                             ELSE mem_seek_cur(m, 1),
                          data, strb, i + 1)

write_lanes_nostrb(m, data, strb) == write_lanes_from(m, data, strb_mask, 0)

write_lanes(m, data, strb) == write_lanes_from(m, data, strb, 0)

\* lines 113-125: the store after one write transaction
store_write_stop_at_end(m, addr, wdata, wstrb) ==
    write_lanes(mem_seek(m, seek_offset(addr)),
                to_bytes(wdata, byte_lanes),
                wstrb % (2^Min(byte_lanes, size - seek_offset(addr))))

store_write(m, addr, wdata, wstrb) ==
    write_lanes(mem_seek(m, seek_offset(addr)),
                to_bytes(wdata, byte_lanes), wstrb)

\* b.bresp = AxiResp.OKAY
b_resp_slverr == SLVERR

b_resp == OKAY

\* -------------------------------------------------------------- coroutines
Task(pc, addr, tag) == [pc |-> pc, addr |-> addr, aw |-> tag]
NewTask(pc) == Task(pc, 0, NoTag)
Alive(tasks) == {t \in DOMAIN tasks : tasks[t].pc # "killed"}

\* coroutine.kill()
kill(tasks, t) ==
    [x \in DOMAIN tasks |-> IF x = t THEN NewTask("killed") ELSE tasks[x]]

\* cocotb.fork(coro): the new task starts at the top of its loop
fork(tasks, pc) == Append(tasks, NewTask(pc))

\* AxiLiteRam.__init__: Memory.__init__ makes self.mem, which is handed to
\* write_if and read_if (mem=self.mem); "own" is a store an engine would
\* make for itself when given none
Stores == {"self.mem", "own"}
read_if_mem_own == "own"

write_if_mem == "self.mem"

read_if_mem == "self.mem"

\* the store the write engine uses, and the one the read engine uses
wmem == mems[write_if_mem]
rmem == mems[read_if_mem]

NewSlave ==
    /\ mems = [s \in Stores |->
                 [bytes |-> [o \in 0..(size - 1) |-> 0], pos |-> 0]]
    /\ aw_queue = <<>> /\ w_queue = <<>> /\ b_queue = <<>>
    /\ ar_queue = <<>> /\ r_queue = <<>>
    /\ write_cr = None /\ read_cr = None
    /\ w_tasks = <<>> /\ r_tasks = <<>>
    /\ w_note = "none" /\ r_note = "none"
    /\ w_epoch = 0 /\ r_epoch = 0
    /\ w_last = "none" /\ r_last = "none"
    /\ aw_n = 0 /\ w_n = 0 /\ ar_n = 0
    /\ b_log = <<>> /\ r_log = <<>>
    /\ full_word = [p \in 0..(size - 1) |-> NoWord]
    /\ w_base = [aw |-> 0, w |-> 0]

\* ------------------------------------------------------------ construction
\* self.byte_lanes = self.width // self.byte_size, for a data signal of n bits
lanes(n) == n \div byte_size

\* AxiLiteRamWrite.__init__, the two assertions
write_init(wdata, wstrb) ==
    /\ lanes(wdata) = wstrb
    /\ lanes(wdata) * byte_size = wdata

\* AxiLiteRamRead.__init__, the assertion
read_init(rdata) == lanes(rdata) * byte_size = rdata

\* the bus the model runs with, and the buses the constructor is tried on:
\* data signals that are a whole number of bytes or not, strobe signals of
\* byte_lanes bits or not
GoodBus == [wdata |-> width, wstrb |-> byte_lanes, rdata |-> width]
Widths == {width - 4, width, width + 4}
Buses == [wdata : Widths,
          wstrb : {byte_lanes - 1, byte_lanes, byte_lanes + 1},
          rdata : Widths]

\* AxiLiteRam(bus, clock, reset, size) has returned
Init ==
    /\ NewSlave
    /\ bus = GoodBus
    /\ ctor = [pc |-> "done", write_if |-> TRUE, read_if |-> TRUE]

\* AxiLiteRam(bus, clock, reset, size) is called
CtorInit ==
    /\ NewSlave
    /\ bus \in Buses
    /\ ctor = [pc |-> "write_if", write_if |-> FALSE, read_if |-> FALSE]

run_vars == <<mems, write_vars, read_vars, w_note, r_note, w_last, r_last>>

\* self.write_if = AxiLiteRamWrite(bus.write, clock, reset, ..., mem=self.mem)
\* a failed assertion leaves __init__ before _init_reset is reached
ConstructWrite ==
    /\ ctor.pc = "write_if"
    /\ ctor' = IF write_init(bus.wdata, bus.wstrb)
                  THEN [ctor EXCEPT !.pc = "read_if", !.write_if = TRUE]
                  ELSE [ctor EXCEPT !.pc = "AssertionError"]
    /\ UNCHANGED <<run_vars, bus>>

\* self.read_if = AxiLiteRamRead(bus.read, clock, reset, ..., mem=self.mem)
ConstructRead ==
    /\ ctor.pc = "read_if"
    /\ ctor' = IF read_init(bus.rdata)
                  THEN [ctor EXCEPT !.pc = "done", !.read_if = TRUE]
                  ELSE [ctor EXCEPT !.pc = "AssertionError"]
    /\ UNCHANGED <<run_vars, bus>>

\* ------------------------------------------------------ reset notification
\* The shared reset signal changes level: every engine that has called
\* _init_reset is notified.
ResetNotify(state) ==
    /\ ctor.write_if \/ ctor.read_if
    /\ w_note = "none" /\ r_note = "none"
    /\ state => w_epoch < MaxResets
    /\ (~state /\ write_cr = None) => Len(w_tasks) < MaxForks
    /\ (~state /\ read_cr = None) => Len(r_tasks) < MaxForks
    /\ w_note' = (IF ~ctor.write_if THEN w_note
                  ELSE IF state THEN "assert" ELSE "deassert")
    /\ r_note' = (IF ~ctor.read_if THEN r_note
                  ELSE IF state THEN "assert" ELSE "deassert")
    /\ UNCHANGED ctor_vars
    /\ UNCHANGED <<mems, write_vars, read_vars, w_last, r_last>>

\* AxiLiteRamWrite._handle_reset(state), state = True
write_reset_assert_nokill ==
    /\ write_cr' = None
    /\ UNCHANGED w_tasks
    /\ aw_queue' = <<>> /\ w_queue' = <<>> /\ b_queue' = <<>>

write_reset_assert_noclear_b ==
    /\ IF write_cr # None
          THEN w_tasks' = kill(w_tasks, write_cr) /\ write_cr' = None
          ELSE UNCHANGED <<w_tasks, write_cr>>
    /\ aw_queue' = <<>> /\ w_queue' = <<>> /\ UNCHANGED b_queue

write_reset_assert_noclear_w ==
    /\ IF write_cr # None
          THEN w_tasks' = kill(w_tasks, write_cr) /\ write_cr' = None
          ELSE UNCHANGED <<w_tasks, write_cr>>
    /\ aw_queue' = <<>> /\ UNCHANGED w_queue /\ b_queue' = <<>>

write_reset_assert ==
    /\ IF write_cr # None
          THEN w_tasks' = kill(w_tasks, write_cr) /\ write_cr' = None
          ELSE UNCHANGED <<w_tasks, write_cr>>
    /\ aw_queue' = <<>> /\ w_queue' = <<>> /\ b_queue' = <<>>

\* AxiLiteRamWrite._handle_reset(state), state = False
write_reset_deassert_always_fork ==
    /\ w_tasks' = fork(w_tasks, "aw")
    /\ write_cr' = Len(w_tasks')
    /\ UNCHANGED <<aw_queue, w_queue, b_queue>>

write_reset_deassert ==
    /\ IF write_cr = None
          THEN w_tasks' = fork(w_tasks, "aw") /\ write_cr' = Len(w_tasks')
          ELSE UNCHANGED <<w_tasks, write_cr>>
    /\ UNCHANGED <<aw_queue, w_queue, b_queue>>

WriteHandleReset_wipe ==
    /\ w_note # "none"
    /\ IF w_note = "assert"
          THEN /\ write_reset_assert
               /\ w_epoch' = w_epoch + 1
               /\ w_base' = [aw |-> aw_n, w |-> w_n]
               /\ mems' = [mems EXCEPT
                             ![write_if_mem].bytes =
                                [o \in 0..(size - 1) |-> 0]]
          ELSE write_reset_deassert /\ UNCHANGED <<w_epoch, w_base, mems>>
    /\ w_last' = w_note
    /\ w_note' = "none"
    /\ UNCHANGED ctor_vars
    /\ UNCHANGED <<read_vars, r_note, r_last, aw_n, w_n, b_log, full_word>>

WriteHandleReset ==
    /\ w_note # "none"
    /\ IF w_note = "assert"
          THEN /\ write_reset_assert
               /\ w_epoch' = w_epoch + 1
               /\ w_base' = [aw |-> aw_n, w |-> w_n]
          ELSE write_reset_deassert /\ UNCHANGED <<w_epoch, w_base>>
    /\ w_last' = w_note
    /\ w_note' = "none"
    /\ UNCHANGED ctor_vars
    /\ UNCHANGED <<mems, read_vars, r_note, r_last, aw_n, w_n, b_log,
                   full_word>>

\* ------------------------------------------------------ write-side channels
\* AW sink: the wire adapter admits a beat while the queue is below its limit
AWAdmit(a) ==
    /\ Len(aw_queue) < queue_occupancy_limit
    /\ aw_n + w_n + ar_n < MaxBeats
    /\ aw_n' = aw_n + 1
    /\ aw_queue' = Append(aw_queue,
                          [awaddr |-> a, tag |-> [ep |-> w_epoch, n |-> aw_n']])
    /\ UNCHANGED <<ctor_vars, w_base>>
    /\ UNCHANGED <<mems, w_queue, b_queue, write_cr, w_tasks, w_epoch, w_n,
                   b_log, read_vars, w_note, r_note, w_last, r_last,
                   full_word>>

\* W sink
WAdmit(d, s) ==
    /\ Len(w_queue) < queue_occupancy_limit
    /\ aw_n + w_n + ar_n < MaxBeats
    /\ w_n' = w_n + 1
    /\ w_queue' = Append(w_queue,
                         [wdata |-> d, wstrb |-> s,
                          tag |-> [ep |-> w_epoch, n |-> w_n']])
    /\ UNCHANGED <<ctor_vars, w_base>>
    /\ UNCHANGED <<mems, aw_queue, b_queue, write_cr, w_tasks, w_epoch, aw_n,
                   b_log, read_vars, w_note, r_note, w_last, r_last,
                   full_word>>

\* B source: the handshake with the master completes; the sender resumes
BTransmit ==
    /\ b_queue # <<>>
    /\ b_log' = Append(b_log, [bresp |-> Head(b_queue).bresp,
                                aw |-> Head(b_queue).aw,
                                w |-> Head(b_queue).w, at |-> w_epoch])
    /\ b_queue' = Tail(b_queue)
    /\ w_tasks' = [t \in DOMAIN w_tasks |->
                     IF w_tasks[t].pc = "send" THEN NewTask("aw")
                     ELSE w_tasks[t]]
    /\ UNCHANGED <<ctor_vars, w_base>>
    /\ UNCHANGED <<mems, aw_queue, w_queue, write_cr, w_epoch, aw_n, w_n,
                   read_vars, w_note, r_note, w_last, r_last, full_word>>

\* history: the store offsets of the byte_lanes run that starts at offset p
Run(p) == {(p + i) % size : i \in 0..(byte_lanes - 1)}

\* history: full_word after a write of data d with strobe s at address a
TrackWrite(a, d, s) ==
    LET touched == {(a + i) % size :
                      i \in {j \in 0..(byte_lanes - 1) : (s \div (2^j)) % 2 = 1}}
    IN  [p \in 0..(size - 1) |->
           IF p = a % size /\ s = strb_mask THEN d
           ELSE IF Run(p) \cap touched # {} THEN NoWord
           ELSE full_word[p]]

\* ---------------------------------------------------------- _process_write
\* aw = await self.aw_channel.recv(); addr = ...
WriteRecvAW_peek(t) ==
    /\ w_tasks[t].pc = "aw"
    /\ aw_queue # <<>>
    /\ w_tasks' = [w_tasks EXCEPT
                     ![t] = Task("w", align(Head(aw_queue).awaddr),
                                 Head(aw_queue).tag)]
    /\ UNCHANGED <<ctor_vars, w_base>>
    /\ UNCHANGED <<mems, aw_queue, w_queue, b_queue, write_cr, w_epoch, aw_n,
                   w_n, b_log, read_vars, w_note, r_note, w_last, r_last,
                   full_word>>

WriteRecvAW_respond(t) ==
    /\ w_tasks[t].pc = "aw"
    /\ aw_queue # <<>>
    /\ aw_queue' = Tail(aw_queue)
    /\ w_tasks' = [w_tasks EXCEPT
                     ![t] = Task("w", align(Head(aw_queue).awaddr),
                                 Head(aw_queue).tag)]
    /\ b_queue' = Append(b_queue, [bresp |-> b_resp,
                                   aw |-> Head(aw_queue).tag, w |-> NoTag])
    /\ UNCHANGED <<ctor_vars, w_base>>
    /\ UNCHANGED <<mems, w_queue, write_cr, w_epoch, aw_n, w_n,
                   b_log, read_vars, w_note, r_note, w_last, r_last,
                   full_word>>

WriteRecvAW(t) ==
    /\ w_tasks[t].pc = "aw"
    /\ aw_queue # <<>>
    /\ aw_queue' = Tail(aw_queue)
    /\ w_tasks' = [w_tasks EXCEPT
                     ![t] = Task("w", align(Head(aw_queue).awaddr),
                                 Head(aw_queue).tag)]
    /\ UNCHANGED <<ctor_vars, w_base>>
    /\ UNCHANGED <<mems, w_queue, b_queue, write_cr, w_epoch, aw_n, w_n,
                   b_log, read_vars, w_note, r_note, w_last, r_last,
                   full_word>>

\* w = await self.w_channel.recv(); the store update; await b_channel.send(b)
WriteRecvW_nowait(t) ==
    /\ w_tasks[t].pc = "w"
    /\ w_queue # <<>>
    /\ w_queue' = Tail(w_queue)
    /\ mems' = [mems EXCEPT
                  ![write_if_mem] = store_write(wmem, w_tasks[t].addr,
                                                Head(w_queue).wdata,
                                                Head(w_queue).wstrb)]
    /\ b_queue' = Append(b_queue, [bresp |-> b_resp, aw |-> w_tasks[t].aw,
                                   w |-> Head(w_queue).tag])
    /\ w_tasks' = [w_tasks EXCEPT ![t] = NewTask("aw")]
    /\ full_word' = TrackWrite(w_tasks[t].addr, Head(w_queue).wdata,
                               Head(w_queue).wstrb)
    /\ UNCHANGED <<ctor_vars, w_base>>
    /\ UNCHANGED <<aw_queue, write_cr, w_epoch, aw_n, w_n, b_log,
                   read_vars, w_note, r_note, w_last, r_last>>

WriteRecvW(t) ==
    /\ w_tasks[t].pc = "w"
    /\ w_queue # <<>>
    /\ w_queue' = Tail(w_queue)
    /\ mems' = [mems EXCEPT
                  ![write_if_mem] = store_write(wmem, w_tasks[t].addr,
                                                Head(w_queue).wdata,
                                                Head(w_queue).wstrb)]
    /\ b_queue' = Append(b_queue, [bresp |-> b_resp, aw |-> w_tasks[t].aw,
                                   w |-> Head(w_queue).tag])
    /\ w_tasks' = [w_tasks EXCEPT ![t] = NewTask("send")]
    /\ full_word' = TrackWrite(w_tasks[t].addr, Head(w_queue).wdata,
                               Head(w_queue).wstrb)
    /\ UNCHANGED <<ctor_vars, w_base>>
    /\ UNCHANGED <<aw_queue, write_cr, w_epoch, aw_n, w_n, b_log,
                   read_vars, w_note, r_note, w_last, r_last>>

WriteNext ==
    \/ WriteHandleReset
    \/ \E a \in Addrs : AWAdmit(a)
    \/ \E d \in DataVals, s \in Strbs : WAdmit(d, s)
    \/ BTransmit
    \/ \E t \in DOMAIN w_tasks : WriteRecvAW(t)
    \/ \E t \in DOMAIN w_tasks : WriteRecvW(t)

\* -------------------------------------------------------------- read side
\* r.rdata = int.from_bytes(data, 'little')
pack_big_endian(data) ==
    IF data = <<>> THEN 0
    ELSE from_bytes([i \in 1..Len(data) |-> data[Len(data) + 1 - i]])

pack(data) == from_bytes(data)

\* lines 200-202: the bytes one read transaction takes from the store
store_read_data_noseek(m, addr) == mem_read_data(m, byte_lanes)

store_read_data(m, addr) ==
    mem_read_data(mem_seek(m, seek_offset(addr)), byte_lanes)

\* lines 200-202: the store after one read transaction
store_read_destructive(m, addr) ==
    [bytes |-> [m.bytes EXCEPT ![seek_offset(addr)] = 0],
     pos |-> (seek_offset(addr) + byte_lanes) % size]

store_read(m, addr) == mem_read(mem_seek(m, seek_offset(addr)), byte_lanes)

\* r.rresp = AxiResp.OKAY
r_resp == OKAY

\* AxiLiteRamRead._handle_reset(state), state = True
read_reset_assert_nokill ==
    /\ read_cr' = None
    /\ UNCHANGED r_tasks
    /\ ar_queue' = <<>> /\ r_queue' = <<>>

read_reset_assert ==
    /\ IF read_cr # None
          THEN r_tasks' = kill(r_tasks, read_cr) /\ read_cr' = None
          ELSE UNCHANGED <<r_tasks, read_cr>>
    /\ ar_queue' = <<>> /\ r_queue' = <<>>

\* AxiLiteRamRead._handle_reset(state), state = False
read_reset_deassert_inverted ==
    /\ IF read_cr # None
          THEN r_tasks' = fork(r_tasks, "ar") /\ read_cr' = Len(r_tasks')
          ELSE UNCHANGED <<r_tasks, read_cr>>
    /\ UNCHANGED <<ar_queue, r_queue>>

read_reset_deassert ==
    /\ IF read_cr = None
          THEN r_tasks' = fork(r_tasks, "ar") /\ read_cr' = Len(r_tasks')
          ELSE UNCHANGED <<r_tasks, read_cr>>
    /\ UNCHANGED <<ar_queue, r_queue>>

ReadHandleReset ==
    /\ r_note # "none"
    /\ IF r_note = "assert"
          THEN read_reset_assert /\ r_epoch' = r_epoch + 1
          ELSE read_reset_deassert /\ UNCHANGED r_epoch
    /\ r_last' = r_note
    /\ r_note' = "none"
    /\ UNCHANGED ctor_vars
    /\ UNCHANGED <<mems, write_vars, w_note, w_last, ar_n, r_log>>

\* AR sink
ARAdmit(a) ==
    /\ Len(ar_queue) < queue_occupancy_limit
    /\ aw_n + w_n + ar_n < MaxBeats
    /\ ar_n' = ar_n + 1
    /\ ar_queue' = Append(ar_queue,
                          [araddr |-> a, tag |-> [ep |-> r_epoch, n |-> ar_n']])
    /\ UNCHANGED ctor_vars
    /\ UNCHANGED <<mems, r_queue, read_cr, r_tasks, r_epoch, r_log,
                   write_vars, w_note, r_note, w_last, r_last>>

\* R source: the handshake with the master completes; the sender resumes
RTransmit ==
    /\ r_queue # <<>>
    /\ r_log' = Append(r_log, [rresp |-> Head(r_queue).rresp,
                                ar |-> Head(r_queue).ar.tag,
                                at |-> r_epoch])
    /\ r_queue' = Tail(r_queue)
    /\ r_tasks' = [t \in DOMAIN r_tasks |->
                     IF r_tasks[t].pc = "send" THEN NewTask("ar")
                     ELSE r_tasks[t]]
    /\ UNCHANGED ctor_vars
    /\ UNCHANGED <<mems, ar_queue, read_cr, r_epoch, ar_n,
                   write_vars, w_note, r_note, w_last, r_last>>

\* ----------------------------------------------------------- _process_read
\* ar = await self.ar_channel.recv(); the store read; await r_channel.send(r)
ReadRecvAR(t) ==
    /\ r_tasks[t].pc = "ar"
    /\ ar_queue # <<>>
    /\ ar_queue' = Tail(ar_queue)
    /\ mems' = [mems EXCEPT
                  ![read_if_mem] = store_read(rmem,
                                              align(Head(ar_queue).araddr))]
    /\ r_queue' = Append(r_queue,
                         [rdata |-> pack(store_read_data(
                                        rmem, align(Head(ar_queue).araddr))),
                          rresp |-> r_resp,
                          ar |-> Head(ar_queue)])
    /\ r_tasks' = [r_tasks EXCEPT ![t] = NewTask("send")]
    /\ UNCHANGED ctor_vars
    /\ UNCHANGED <<read_cr, r_epoch, ar_n, r_log,
                   write_vars, w_note, r_note, w_last, r_last>>

ReadNext ==
    \/ ReadHandleReset
    \/ \E a \in Addrs : ARAdmit(a)
    \/ RTransmit
    \/ \E t \in DOMAIN r_tasks : ReadRecvAR(t)

Next ==
    \/ \E state \in BOOLEAN : ResetNotify(state)
    \/ WriteNext
    \/ ReadNext

Spec == Init /\ [][Next]_vars

\* The constructor runs to its end or to a failed assertion without
\* suspending; after that the engines that were built go on as above.
Returned == ctor.pc \in {"done", "AssertionError"}

CtorNext ==
    \/ ConstructWrite
    \/ ConstructRead
    \/ Returned /\ \E state \in BOOLEAN : ResetNotify(state)
    \/ Returned /\ ctor.write_if /\ WriteNext
    \/ Returned /\ ctor.read_if /\ ReadNext

CtorSpec == CtorInit /\ [][CtorNext]_vars

\* ------------------------------------------------------------- properties

\* byte i (0 = lowest order) of the unsigned integer d
Byte(d, i) == (d \div (256^i)) % 256

\* the value whose byte i is the store byte at (off + i) mod size
RECURSIVE LEValue(_, _, _)
LEValue(bytes, off, n) ==
    IF n = 0 THEN 0
    ELSE LEValue(bytes, off, n - 1)
         + bytes[(off + n - 1) % size] * (256^(n - 1))

\* the multiple of byte_lanes at or below a
Floor(a) == CHOOSE e \in 0..a : e % byte_lanes = 0 /\ a - e < byte_lanes

WriteStep ==
    \/ BTransmit
    \/ \E t \in DOMAIN w_tasks : WriteRecvAW(t)
    \/ \E t \in DOMAIN w_tasks : WriteRecvW(t)

ReadStep ==
    \/ RTransmit
    \/ \E t \in DOMAIN r_tasks : ReadRecvAR(t)

\* a write task takes its data beat, updates the store and sends the response
IsStoreWrite(t) ==
    /\ t \in DOMAIN w_tasks /\ t \in DOMAIN w_tasks'
    /\ w_tasks[t].pc = "w" /\ w_tasks'[t].pc = "send"

\* a read task takes its address beat, reads the store and sends the data
IsStoreRead(t) ==
    /\ t \in DOMAIN r_tasks /\ t \in DOMAIN r_tasks'
    /\ r_tasks[t].pc = "ar" /\ r_tasks'[t].pc = "send"

\* C1: with no reset asserted, the k-th write response transmitted answers
\* the k-th address beat and the k-th data beat, there are never more
\* responses than address/data pairs, while a pair is unanswered the running
\* engine or the response channel can take a step (so a master that accepts
\* every response gets exactly N), and every response ever produced is OKAY.
C1_WriteResponses ==
    /\ \A k \in 1..Len(b_queue) : b_queue[k].bresp = OKAY
    /\ \A k \in 1..Len(b_log) : b_log[k].bresp = OKAY
    /\ w_epoch = 0 =>
         /\ \A k \in 1..Len(b_log) : b_log[k].aw.n = k /\ b_log[k].w.n = k
         /\ Len(b_log) + Len(b_queue) <= Min(aw_n, w_n)
         /\ (write_cr # None /\ Len(b_log) < Min(aw_n, w_n))
               => ENABLED WriteStep

C1_Witness ==
    /\ w_epoch = 0 /\ Len(b_log) = 2
    /\ b_log[2].bresp = OKAY /\ b_log[2].aw.n = 2 /\ b_log[2].w.n = 2

\* C2: with no reset asserted, the k-th read-data beat transmitted answers
\* the k-th address beat with OKAY, there are never more data beats than
\* address beats and an unanswered address lets the running engine step; the
\* data of a beat is the little-endian value of the byte_lanes store bytes at
\* the address's effective offset when the engine reads them, and a beat
\* waiting to be sent is never altered.
C2_State ==
    /\ \A k \in 1..Len(r_queue) : r_queue[k].rresp = OKAY
    /\ \A k \in 1..Len(r_log) : r_log[k].rresp = OKAY
    /\ r_epoch = 0 =>
         /\ \A k \in 1..Len(r_log) : r_log[k].ar.n = k
         /\ Len(r_log) + Len(r_queue) <= ar_n
         /\ (read_cr # None /\ Len(r_log) < ar_n) => ENABLED ReadStep

C2_Step ==
    /\ \A t \in DOMAIN r_tasks :
         IsStoreRead(t) =>
           r_queue' = Append(r_queue,
              [rdata |-> LEValue(rmem.bytes,
                                 Floor(Head(ar_queue).araddr), byte_lanes),
               rresp |-> OKAY,
               ar |-> Head(ar_queue)])
    /\ (\A t \in DOMAIN r_tasks : ~IsStoreRead(t)) =>
          \/ r_queue' = r_queue
          \/ r_queue' = <<>>
          \/ /\ r_queue # <<>> /\ r_queue' = Tail(r_queue)
             /\ r_log' = Append(r_log, [rresp |-> Head(r_queue).rresp,
                                        ar |-> Head(r_queue).ar.tag,
                                        at |-> r_epoch])

C2_ReadBeats == [](C2_State) /\ [][C2_Step]_vars

\* one data beat was transmitted and the next one waits with data the store
\* no longer holds at its address
C2_Witness ==
    /\ r_epoch = 0 /\ Len(r_log) = 1 /\ r_queue # <<>>
    /\ Head(r_queue).ar.tag.n = 2
    /\ Head(r_queue).rdata #
          LEValue(rmem.bytes, Floor(Head(r_queue).ar.araddr), byte_lanes)

\* C3: a write with effective offset A, data D and strobe m sets the store
\* byte of lane i to byte i of D when bit i of m is set, leaves it alone when
\* the bit is clear, changes no byte outside the byte_lanes run at A, and
\* yields one OKAY response; with m = 0 the store bytes are unchanged.
C3_Step ==
    \A t \in DOMAIN w_tasks :
      IsStoreWrite(t) =>
        LET A == w_tasks[t].addr
            D == Head(w_queue).wdata
            m == Head(w_queue).wstrb
            Lane(o) == {i \in 0..(byte_lanes - 1) : (A + i) % size = o}
            Set(i) == (m \div (2^i)) % 2 = 1
        IN  /\ \A o \in 0..(size - 1) :
                 wmem'.bytes[o] =
                    IF \E i \in Lane(o) : Set(i)
                       THEN Byte(D, CHOOSE i \in Lane(o) : Set(i))
                       ELSE wmem.bytes[o]
            /\ m = 0 => wmem'.bytes = wmem.bytes
            /\ Len(b_queue') = Len(b_queue) + 1
            /\ Last(b_queue').bresp = OKAY

C3_ByteLaneMasking == [][C3_Step]_vars

\* the low byte comes from a later write of D2 with strobe 01, the high byte
\* is still the one an earlier write of D1 left
C3_Witness ==
    /\ wmem.bytes[0] = Byte(D2, 0) /\ wmem.bytes[1] = Byte(D1, 1)
    /\ Len(b_log) = 2

\* C4: a read of address X returns exactly V when the latest write that
\* touched any byte of the word at X was a write of V with all strobe bits
\* set to that word (whether or not a reset came in between); the read
\* engine reads the store object the write engine writes.
C4_Step ==
    \A t \in DOMAIN r_tasks :
      IsStoreRead(t) =>
        LET p == Floor(Head(ar_queue).araddr) % size
        IN  full_word[p] # NoWord => Last(r_queue').rdata = full_word[p]

C4_RoundTrip == [][C4_Step]_vars

\* a read of address 2, whose word wraps to offset 0, waits to be sent with
\* the data D2 written there, after the write's response was transmitted
C4_Witness ==
    /\ r_queue # <<>> /\ Head(r_queue).rdata = D2
    /\ Head(r_queue).ar.araddr = byte_lanes
    /\ full_word[byte_lanes % size] = D2
    /\ Len(b_log) = 1

\* C5: the effective address of an address beat a is the multiple of
\* byte_lanes with 0 <= a - effective < byte_lanes: the write engine keeps it
\* for its store update, the read engine reads the byte_lanes bytes there and
\* leaves the store positioned after them; an address beat at the head of the
\* queue of a waiting engine is always taken, aligned or not.
C5_State ==
    /\ \A t \in DOMAIN w_tasks :
         (w_tasks[t].pc = "aw" /\ aw_queue # <<>>) => ENABLED WriteRecvAW(t)
    /\ \A t \in DOMAIN r_tasks :
         (r_tasks[t].pc = "ar" /\ ar_queue # <<>>) => ENABLED ReadRecvAR(t)
    /\ \A t \in DOMAIN w_tasks :
         w_tasks[t].pc = "w" => w_tasks[t].addr % byte_lanes = 0

C5_Step ==
    /\ \A t \in DOMAIN w_tasks :
         (t \in DOMAIN w_tasks' /\ w_tasks[t].pc = "aw"
            /\ w_tasks'[t].pc = "w") =>
           LET a == Head(aw_queue).awaddr
               e == w_tasks'[t].addr
           IN  e % byte_lanes = 0 /\ 0 <= a - e /\ a - e < byte_lanes
    /\ \A t \in DOMAIN r_tasks :
         IsStoreRead(t) =>
           \E e \in 0..Head(ar_queue).araddr :
              /\ e % byte_lanes = 0
              /\ Head(ar_queue).araddr - e < byte_lanes
              /\ Last(r_queue').rdata = LEValue(rmem.bytes, e, byte_lanes)
              /\ rmem'.pos = (e + byte_lanes) % size

C5_Alignment == [](C5_State) /\ [][C5_Step]_vars

\* the write engine holds effective address byte_lanes for a beat that can
\* only have been unaligned or aliased, and an unaligned read was served
\* with the (non-zero) word at its rounded-down address
C5_Witness ==
    /\ \E t \in DOMAIN w_tasks :
         w_tasks[t].pc = "w" /\ w_tasks[t].addr = byte_lanes
    /\ r_queue # <<>>
    /\ Head(r_queue).ar.araddr = byte_lanes + 1
    /\ Head(r_queue).rdata # 0

\* C6: a write changes only store offsets (effective + i) mod size, i in
\* [0, byte_lanes), putting byte i of the data at that offset for every
\* strobe-enabled lane, and a read returns the value whose byte i is the
\* store byte at (effective + i) mod size: an address at or beyond size
\* aliases, and a run that crosses the end of the store continues at 0.
C6_Step ==
    /\ \A t \in DOMAIN w_tasks :
         IsStoreWrite(t) =>
           LET A == w_tasks[t].addr
               D == Head(w_queue).wdata
               m == Head(w_queue).wstrb
           IN  /\ \A i \in 0..(byte_lanes - 1) :
                    (m \div (2^i)) % 2 = 1 =>
                       wmem'.bytes[(A + i) % size] = Byte(D, i)
               /\ \A o \in 0..(size - 1) :
                    wmem'.bytes[o] # wmem.bytes[o] =>
                       \E i \in 0..(byte_lanes - 1) : o = (A + i) % size
               /\ Len(b_queue') = Len(b_queue) + 1
    /\ \A t \in DOMAIN r_tasks :
         IsStoreRead(t) =>
           LET A == Floor(Head(ar_queue).araddr)
           IN  /\ \A i \in 0..(byte_lanes - 1) :
                    Byte(Last(r_queue').rdata, i) = rmem.bytes[(A + i) % size]
               /\ Last(r_queue').rdata < 2^width

C6_Wraparound == [][C6_Step]_vars

\* a full write of D1 that started at the last store offset put its second
\* byte at offset 0, and a read that crossed the end the same way got D1
C6_Witness ==
    /\ wmem.bytes[size - 1] = Byte(D1, 0) /\ wmem.bytes[0] = Byte(D1, 1)
    /\ full_word[size - 1] = D1
    /\ r_queue # <<>>
    /\ Floor(Head(r_queue).ar.araddr) % size = size - 1
    /\ Head(r_queue).rdata = D1

\* the write side, or the read side, handles the pending notification
WriteHandles(note) == w_note = note /\ w_note' = "none"
ReadHandles(note) == r_note = note /\ r_note' = "none"

\* C7: in the state right after a side handles a reset assertion its task
\* handle is empty, none of its coroutines is alive, and all of its channel
\* queues are empty (AW, W, B for the write side; AR, R for the read side).
C7_Step ==
    /\ WriteHandles("assert") =>
         /\ write_cr' = None /\ Alive(w_tasks') = {}
         /\ aw_queue' = <<>> /\ w_queue' = <<>> /\ b_queue' = <<>>
    /\ ReadHandles("assert") =>
         /\ read_cr' = None /\ Alive(r_tasks') = {}
         /\ ar_queue' = <<>> /\ r_queue' = <<>>

C7_ResetClears == [][C7_Step]_vars

\* both sides have handled an assertion that wiped admitted beats: beats
\* were admitted on every sink, none was answered, nothing is queued and a
\* coroutine of each engine was killed
C7_Witness ==
    /\ w_last = "assert" /\ r_last = "assert"
    /\ aw_n > 0 /\ w_n > 0 /\ ar_n > 0
    /\ b_log = <<>> /\ r_log = <<>>
    /\ aw_queue = <<>> /\ w_queue = <<>> /\ b_queue = <<>>
    /\ ar_queue = <<>> /\ r_queue = <<>>
    /\ write_cr = None /\ read_cr = None
    /\ Len(w_tasks) = 1 /\ Len(r_tasks) = 1

\* C8: every response transmitted answers beats admitted since the last
\* reset assertion its side handled, every response still queued and every
\* address a live coroutine holds is of the current reset epoch, and a
\* killed coroutine stays killed.
C8_State ==
    /\ \A k \in 1..Len(b_log) :
         b_log[k].aw.ep = b_log[k].at /\ b_log[k].w.ep = b_log[k].at
    /\ \A k \in 1..Len(r_log) : r_log[k].ar.ep = r_log[k].at
    /\ \A k \in 1..Len(b_queue) :
         b_queue[k].aw.ep = w_epoch /\ b_queue[k].w.ep = w_epoch
    /\ \A k \in 1..Len(r_queue) : r_queue[k].ar.tag.ep = r_epoch
    /\ \A t \in Alive(w_tasks) :
         w_tasks[t].pc = "w" => w_tasks[t].aw.ep = w_epoch

C8_Step ==
    /\ \A t \in DOMAIN w_tasks :
         w_tasks[t].pc = "killed" =>
            t \in DOMAIN w_tasks' /\ w_tasks'[t].pc = "killed"
    /\ \A t \in DOMAIN r_tasks :
         r_tasks[t].pc = "killed" =>
            t \in DOMAIN r_tasks' /\ r_tasks'[t].pc = "killed"

C8_NoStaleResponse == [](C8_State) /\ [][C8_Step]_vars

\* the first write address was cut off by the reset and the only response
\* transmitted answers the second one, after it; the one read address
\* admitted is gone unanswered and the restarted read engine waits for the
\* next
C8_Witness ==
    /\ Len(b_log) = 1 /\ b_log[1].at = 1 /\ b_log[1].aw.n = 2
    /\ ar_n = 1 /\ r_epoch = 1 /\ r_log = <<>>
    /\ ar_queue = <<>> /\ r_queue = <<>>
    /\ read_cr # None /\ r_tasks[read_cr].pc = "ar"

\* C9: a reset assertion handled while the engine is not running can be
\* handled, leaves it not running and the queues empty; a deassertion
\* handled while it is running changes nothing of that side; after any
\* sequence of notifications the engine runs exactly when the last one
\* handled was a deassertion.
C9_State ==
    /\ w_note # "none" => ENABLED WriteHandleReset
    /\ r_note # "none" => ENABLED ReadHandleReset
    /\ w_last = "assert" => write_cr = None /\ Alive(w_tasks) = {}
    /\ w_last = "deassert" => write_cr # None /\ Alive(w_tasks) = {write_cr}
    /\ r_last = "assert" => read_cr = None /\ Alive(r_tasks) = {}
    /\ r_last = "deassert" => read_cr # None /\ Alive(r_tasks) = {read_cr}

C9_Step ==
    /\ (WriteHandles("assert") /\ write_cr = None) =>
         /\ write_cr' = None /\ w_tasks' = w_tasks
         /\ aw_queue' = <<>> /\ w_queue' = <<>> /\ b_queue' = <<>>
    /\ (WriteHandles("deassert") /\ write_cr # None) =>
         UNCHANGED <<write_cr, w_tasks, aw_queue, w_queue, b_queue, mems>>
    /\ (ReadHandles("assert") /\ read_cr = None) =>
         /\ read_cr' = None /\ r_tasks' = r_tasks
         /\ ar_queue' = <<>> /\ r_queue' = <<>>
    /\ (ReadHandles("deassert") /\ read_cr # None) =>
         UNCHANGED <<read_cr, r_tasks, ar_queue, r_queue, mems>>

C9_ResetIdempotence == [](C9_State) /\ [][C9_Step]_vars

\* a second deassertion in a row: the write side has handled it and its
\* first coroutine still waits for the data beat of the address it holds;
\* the read side has yet to handle it
C9_Witness ==
    /\ w_last = "deassert" /\ r_last = "deassert"
    /\ w_note = "none" /\ r_note = "deassert"
    /\ write_cr # None /\ w_tasks[write_cr].pc = "w"
    /\ w_tasks[write_cr].aw.n = 1
    /\ Len(w_tasks) = 1

\* C10: at most one coroutine of each engine is alive, and it is the one
\* the handle names (none when the handle is empty); a coroutine is forked
\* only when the handle is empty.
C10_State ==
    /\ Cardinality(Alive(w_tasks)) <= 1
    /\ Cardinality(Alive(r_tasks)) <= 1
    /\ Alive(w_tasks) = (IF write_cr = None THEN {} ELSE {write_cr})
    /\ Alive(r_tasks) = (IF read_cr = None THEN {} ELSE {read_cr})

C10_Step ==
    /\ Len(w_tasks') > Len(w_tasks) => write_cr = None
    /\ Len(r_tasks') > Len(r_tasks) => read_cr = None

C10_OneLiveTask == [](C10_State) /\ [][C10_Step]_vars

\* each engine was killed once and forked again
C10_Witness ==
    /\ Len(w_tasks) = 2 /\ Alive(w_tasks) = {2} /\ write_cr = 2
    /\ Len(r_tasks) = 2 /\ Alive(r_tasks) = {2} /\ read_cr = 2

\* C11: with no reset asserted, each sink queue holds consecutive beats in
\* arrival order, the engine has taken as many data beats as it completed
\* writes and one address beat more exactly while it waits for data, and the
\* write applied for the N-th address beat puts the strobe-enabled bytes of
\* the N-th data beat at that address's effective offset, whatever the
\* arrival order of the two channels was.
C11_State ==
    w_epoch = 0 =>
      LET done == Len(b_log) + Len(b_queue)
      IN  /\ \A k \in 1..Len(aw_queue) :
               aw_queue[k].tag.n = aw_n - Len(aw_queue) + k
          /\ \A k \in 1..Len(w_queue) :
               w_queue[k].tag.n = w_n - Len(w_queue) + k
          /\ w_n - Len(w_queue) = done
          /\ aw_n - Len(aw_queue) =
                done + Cardinality({t \in Alive(w_tasks) :
                                       w_tasks[t].pc = "w"})
          /\ \A t \in Alive(w_tasks) :
               w_tasks[t].pc = "w" => w_tasks[t].aw.n = done + 1
          /\ \A k \in 1..Len(b_queue) : b_queue[k].aw.n = b_queue[k].w.n
          /\ \A k \in 1..Len(b_log) : b_log[k].aw.n = b_log[k].w.n

C11_Step ==
    w_epoch = 0 =>
      /\ \A t \in DOMAIN w_tasks :
           (t \in DOMAIN w_tasks' /\ w_tasks[t].pc = "aw"
              /\ w_tasks'[t].pc = "w") =>
             /\ w_tasks'[t].aw = Head(aw_queue).tag
             /\ w_tasks'[t].addr = Floor(Head(aw_queue).awaddr)
             /\ aw_queue' = Tail(aw_queue)
      /\ \A t \in DOMAIN w_tasks :
           IsStoreWrite(t) =>
             /\ Head(w_queue).tag.n = w_tasks[t].aw.n
             /\ w_queue' = Tail(w_queue)
             /\ \A i \in 0..(byte_lanes - 1) :
                  (Head(w_queue).wstrb \div (2^i)) % 2 = 1 =>
                     wmem'.bytes[(w_tasks[t].addr + i) % size] =
                        Byte(Head(w_queue).wdata, i)
             /\ Last(b_queue').aw.n = w_tasks[t].aw.n
             /\ Last(b_queue').w.n = w_tasks[t].aw.n

C11_Pairing == [](C11_State) /\ [][C11_Step]_vars

\* one address beat and two data beats were admitted: the first data beat
\* was applied to the address, the second one waits in its queue for an
\* address that has not arrived yet
C11_Witness ==
    /\ w_epoch = 0 /\ aw_n = 1 /\ w_n = 2
    /\ Len(w_queue) = 1 /\ Head(w_queue).tag.n = 2
    /\ Len(b_queue) = 1 /\ Head(b_queue).aw.n = 1 /\ Head(b_queue).w.n = 1
    /\ \E t \in Alive(w_tasks) : w_tasks[t].pc = "send"

\* C12: each of the five channel queues holds at most 2 beats in every
\* reachable state; a sink that holds 2 admits no further beat, and a queue
\* grows only from below 2; an engine that has handed a beat to a source
\* stays suspended in send, taking no further beat, while the source still
\* holds that beat.
C12_State ==
    /\ Len(aw_queue) <= 2 /\ Len(w_queue) <= 2 /\ Len(b_queue) <= 2
    /\ Len(ar_queue) <= 2 /\ Len(r_queue) <= 2
    /\ Len(aw_queue) = 2 => \A a \in Addrs : ~ENABLED AWAdmit(a)
    /\ Len(w_queue) = 2 =>
          \A d \in DataVals, s \in Strbs : ~ENABLED WAdmit(d, s)
    /\ Len(ar_queue) = 2 => \A a \in Addrs : ~ENABLED ARAdmit(a)
    /\ \A t \in Alive(w_tasks) :
         (w_tasks[t].pc = "send" /\ b_queue # <<>>) =>
            ~ENABLED WriteRecvAW(t) /\ ~ENABLED WriteRecvW(t)
    /\ \A t \in Alive(r_tasks) :
         (r_tasks[t].pc = "send" /\ r_queue # <<>>) => ~ENABLED ReadRecvAR(t)

C12_Step ==
    /\ Len(aw_queue') > Len(aw_queue) => Len(aw_queue) < 2
    /\ Len(w_queue') > Len(w_queue) => Len(w_queue) < 2
    /\ Len(ar_queue') > Len(ar_queue) => Len(ar_queue) < 2
    /\ Len(b_queue') > Len(b_queue) => Len(b_queue) < 2
    /\ Len(r_queue') > Len(r_queue) => Len(r_queue) < 2

C12_BoundedOccupancy == [](C12_State) /\ [][C12_Step]_vars

\* the master has not accepted the first response: the write engine is
\* suspended in send, and the address sink, holding two further address
\* beats, is full
C12_Witness ==
    /\ Len(aw_queue) = 2 /\ aw_n = 3
    /\ Len(b_queue) = 1 /\ b_log = <<>>
    /\ \E t \in Alive(w_tasks) : w_tasks[t].pc = "send"

\* the data width is not a whole number of bytes for one of the engines, or
\* the strobe width differs from the write engine's byte_lanes
BadConfig ==
    \/ (bus.wdata \div 8) * 8 # bus.wdata
    \/ (bus.rdata \div 8) * 8 # bus.rdata
    \/ bus.wstrb # bus.wdata \div 8

\* C13: with a malformed configuration construction does not complete, no
\* engine task is ever started, no beat is ever processed and the store is
\* never touched.
C13_ConfigErrorsFatal ==
    BadConfig =>
      /\ ctor.pc # "done"
      /\ write_cr = None /\ read_cr = None
      /\ w_tasks = <<>> /\ r_tasks = <<>>
      /\ b_queue = <<>> /\ r_queue = <<>> /\ b_log = <<>> /\ r_log = <<>>
      /\ \A s \in Stores, o \in 0..(size - 1) : mems[s].bytes[o] = 0

\* the bytes of some store differ before and after the step
StoreChanged == \E s \in Stores : mems'[s].bytes # mems[s].bytes

\* C14: a write coroutine moves from awaiting the address to awaiting the
\* data only by consuming an address beat, from there to sending only by
\* consuming a data beat, and back only when its response is transmitted; a
\* response is handed to the response endpoint only in the step that
\* consumes the data beat and updates the store, by a coroutine that holds
\* an address; the store changes in no other step; while no address or no
\* data beat has arrived there is no response and the store is untouched.
C14_State ==
    /\ \A t \in DOMAIN w_tasks :
         w_tasks[t].pc \in {"aw", "w", "send", "killed"}
    /\ \A k \in 1..Len(b_queue) :
         b_queue[k].aw.n >= 1 /\ b_queue[k].w.n >= 1
    /\ \A k \in 1..Len(b_log) : b_log[k].aw.n >= 1 /\ b_log[k].w.n >= 1
    /\ (aw_n = 0 \/ w_n = 0) =>
          /\ b_queue = <<>> /\ b_log = <<>>
          /\ \A o \in 0..(size - 1) : wmem.bytes[o] = 0
    /\ w_epoch = 0 =>
          Len(b_log) + Len(b_queue) <=
             Min(aw_n - Len(aw_queue), w_n - Len(w_queue))

C14_Step ==
    /\ \A t \in DOMAIN w_tasks :
         (t \in DOMAIN w_tasks' /\ w_tasks'[t].pc # w_tasks[t].pc) =>
            \/ w_tasks'[t].pc = "killed"
            \/ /\ w_tasks[t].pc = "aw" /\ w_tasks'[t].pc = "w"
               /\ aw_queue # <<>> /\ aw_queue' = Tail(aw_queue)
               /\ UNCHANGED <<w_queue, b_queue, b_log, mems>>
            \/ /\ w_tasks[t].pc = "w" /\ w_tasks'[t].pc = "send"
               /\ w_tasks[t].aw.n >= 1
               /\ w_queue # <<>> /\ w_queue' = Tail(w_queue)
               /\ Len(b_queue') = Len(b_queue) + 1
               /\ UNCHANGED <<aw_queue, b_log>>
            \/ /\ w_tasks[t].pc = "send" /\ w_tasks'[t].pc = "aw"
               /\ b_queue # <<>> /\ b_queue' = Tail(b_queue)
               /\ Len(b_log') = Len(b_log) + 1
               /\ UNCHANGED <<aw_queue, w_queue, mems>>
    /\ Len(b_queue') > Len(b_queue) =>
          /\ \E t \in DOMAIN w_tasks : IsStoreWrite(t)
          /\ Len(b_queue') = Len(b_queue) + 1
    /\ StoreChanged => \E t \in DOMAIN w_tasks : IsStoreWrite(t)

C14_WriteStepOrder == [](C14_State) /\ [][C14_Step]_vars

\* one write went through all its steps (the store holds its data and its
\* response was transmitted); of the second one only the address has
\* arrived: the engine waits for data and no second response exists
C14_Witness ==
    /\ w_epoch = 0 /\ aw_n = 2 /\ w_n = 1
    /\ Len(b_log) = 1 /\ b_queue = <<>>
    /\ \E o \in 0..(size - 1) : wmem.bytes[o] # 0
    /\ \E t \in Alive(w_tasks) : w_tasks[t].pc = "w" /\ w_tasks[t].aw.n = 2

\* the coroutines of an engine that have consumed an address beat and have
\* not yet completed the send of its response
WriteInFlight == {t \in Alive(w_tasks) : w_tasks[t].pc \in {"w", "send"}}
ReadInFlight == {t \in Alive(r_tasks) : r_tasks[t].pc = "send"}

\* C15: each engine has at most one transaction in flight; a response held
\* by a source endpoint is the response of that one transaction, whose
\* coroutine is suspended in send; an engine consumes an address beat only
\* when it has no transaction in flight and its source endpoint holds no
\* response.
C15_State ==
    /\ Cardinality(WriteInFlight) <= 1
    /\ Cardinality(ReadInFlight) <= 1
    /\ Len(b_queue) <= 1 /\ Len(r_queue) <= 1
    /\ b_queue # <<>> =>
          \E t \in WriteInFlight : w_tasks[t].pc = "send"
    /\ r_queue # <<>> => ReadInFlight # {}
    /\ (\E t \in WriteInFlight : w_tasks[t].pc = "w") => b_queue = <<>>

C15_Step ==
    /\ (\E t \in DOMAIN w_tasks :
           /\ t \in DOMAIN w_tasks'
           /\ w_tasks[t].pc = "aw" /\ w_tasks'[t].pc = "w") =>
          /\ aw_queue' = Tail(aw_queue)
          /\ WriteInFlight = {} /\ b_queue = <<>>
          /\ Cardinality(WriteInFlight') = 1
    /\ (\E t \in DOMAIN r_tasks : IsStoreRead(t)) =>
          /\ ar_queue' = Tail(ar_queue)
          /\ ReadInFlight = {} /\ r_queue = <<>>
          /\ Cardinality(ReadInFlight') = 1
    /\ Len(aw_queue') < Len(aw_queue) =>
          \/ aw_queue' = <<>> /\ WriteInFlight' = {}
          \/ WriteInFlight = {} /\ b_queue = <<>>
    /\ Len(ar_queue') < Len(ar_queue) =>
          \/ ar_queue' = <<>> /\ ReadInFlight' = {}
          \/ ReadInFlight = {} /\ r_queue = <<>>

C15_OneTransaction == [](C15_State) /\ [][C15_Step]_vars

\* each engine is suspended in the send of its first response, which the
\* master has not accepted, while a second write address waits in its queue
C15_Witness ==
    /\ Len(b_queue) = 1 /\ Len(r_queue) = 1 /\ b_log = <<>> /\ r_log = <<>>
    /\ Len(aw_queue) = 1
    /\ Cardinality(WriteInFlight) = 1 /\ Cardinality(ReadInFlight) = 1

\* the write transactions completed since the last reset assertion the write
\* side handled
DoneSinceReset ==
    Cardinality({k \in 1..Len(b_log) : b_log[k].at = w_epoch}) + Len(b_queue)

\* C16: the deassertion handled after an assertion starts one coroutine at
\* the top of its loop, awaiting an address and holding nothing; every beat
\* in a queue and every address a live coroutine holds was admitted after
\* the last assertion; and the k-th write the restarted engine applies pairs
\* the k-th address beat with the k-th data beat admitted after the reset
\* (for k = 1 the first with the first), wherever the killed coroutine was
\* suspended.
C16_State ==
    /\ (w_last = "deassert" /\ w_epoch >= 1) =>
          write_cr # None /\ Alive(w_tasks) = {write_cr}
    /\ (r_last = "deassert" /\ r_epoch >= 1) =>
          read_cr # None /\ Alive(r_tasks) = {read_cr}
    /\ \A k \in 1..Len(aw_queue) :
         aw_queue[k].tag.ep = w_epoch /\ aw_queue[k].tag.n > w_base.aw
    /\ \A k \in 1..Len(w_queue) :
         w_queue[k].tag.ep = w_epoch /\ w_queue[k].tag.n > w_base.w
    /\ \A k \in 1..Len(b_queue) :
         b_queue[k].aw.n > w_base.aw /\ b_queue[k].w.n > w_base.w
    /\ \A k \in 1..Len(ar_queue) : ar_queue[k].tag.ep = r_epoch
    /\ \A k \in 1..Len(r_queue) : r_queue[k].ar.tag.ep = r_epoch
    /\ \A t \in Alive(w_tasks) :
         /\ w_tasks[t].pc = "w" => w_tasks[t].aw.n > w_base.aw
         /\ w_tasks[t].pc # "w" => w_tasks[t] = NewTask(w_tasks[t].pc)
    /\ \A t \in Alive(r_tasks) : r_tasks[t] = NewTask(r_tasks[t].pc)

C16_Step ==
    /\ (WriteHandles("deassert") /\ write_cr = None) =>
          /\ write_cr' # None /\ Alive(w_tasks') = {write_cr'}
          /\ w_tasks'[write_cr'] = NewTask("aw")
          /\ UNCHANGED <<aw_queue, w_queue, b_queue>>
    /\ (ReadHandles("deassert") /\ read_cr = None) =>
          /\ read_cr' # None /\ Alive(r_tasks') = {read_cr'}
          /\ r_tasks'[read_cr'] = NewTask("ar")
          /\ UNCHANGED <<ar_queue, r_queue>>
    /\ \A t \in DOMAIN w_tasks :
         IsStoreWrite(t) =>
            /\ w_tasks[t].aw.n = w_base.aw + DoneSinceReset + 1
            /\ Head(w_queue).tag.n = w_base.w + DoneSinceReset + 1
            /\ Last(b_queue').aw = w_tasks[t].aw
            /\ Last(b_queue').w = Head(w_queue).tag

C16_ResetRecovery == [](C16_State) /\ [][C16_Step]_vars

\* one address and one data beat were admitted before the reset and no
\* response was ever transmitted; the restarted engine has applied the
\* second data beat to the second address and is sending that response
C16_Witness ==
    /\ w_epoch = 1 /\ w_base = [aw |-> 1, w |-> 1] /\ b_log = <<>>
    /\ Len(w_tasks) = 2 /\ w_tasks[1].pc = "killed" /\ w_tasks[2].pc = "send"
    /\ Len(b_queue) = 1 /\ Head(b_queue).aw.n = 2 /\ Head(b_queue).w.n = 2
    /\ Head(b_queue).aw.ep = 1 /\ Head(b_queue).w.ep = 1

\* C17: the two engines use one store and one store position, and each
\* transaction positions the store itself and makes all of its byte
\* accesses in one step in which the other engine does nothing: a write puts
\* its strobe-enabled bytes at its own run of offsets wherever the position
\* was left, a read takes the bytes at its own run wherever the position was
\* left, and in every state a word written with full strobe and not written
\* to since is in the store entirely, so a read sees a write on all of its
\* bytes or on none.
C17_State ==
    /\ write_if_mem = read_if_mem
    /\ \A p \in 0..(size - 1) :
         full_word[p] # NoWord =>
            LEValue(wmem.bytes, p, byte_lanes) = full_word[p]

C17_Step ==
    /\ \A t \in DOMAIN w_tasks :
         IsStoreWrite(t) =>
           LET A == w_tasks[t].addr
               Lane(o) == {i \in 0..(byte_lanes - 1) : (A + i) % size = o}
               Set(i) == (Head(w_queue).wstrb \div (2^i)) % 2 = 1
           IN  /\ \A o \in 0..(size - 1) :
                    wmem'.bytes[o] =
                       IF \E i \in Lane(o) : Set(i)
                          THEN Byte(Head(w_queue).wdata,
                                    CHOOSE i \in Lane(o) : Set(i))
                          ELSE wmem.bytes[o]
               /\ wmem'.pos = (A + byte_lanes) % size
               /\ UNCHANGED <<r_tasks, ar_queue, r_queue>>
    /\ \A t \in DOMAIN r_tasks :
         IsStoreRead(t) =>
           LET A == Floor(Head(ar_queue).araddr)
           IN  /\ Last(r_queue').rdata = LEValue(rmem.bytes, A, byte_lanes)
               /\ rmem'.pos = (A + byte_lanes) % size
               /\ UNCHANGED <<w_tasks, aw_queue, w_queue, b_queue>>

C17_NoInterleaving == [](C17_State) /\ [][C17_Step]_vars

\* the one write, of D2 with full strobe at the last store offset, left the
\* position at 1; the one read, of address 0, came after it (the position
\* is where the read left it) and returned the bytes at 0 and 1, of which
\* the first is the high byte of D2
C17_Witness ==
    /\ aw_n = 1 /\ w_n = 1 /\ ar_n = 1
    /\ full_word[size - 1] = D2
    /\ rmem.pos = byte_lanes % size
    /\ r_queue # <<>> /\ Head(r_queue).ar.araddr = 0
    /\ Head(r_queue).rdata = Byte(D2, 1)

\* C18: in the composite, once both sides have handled every notification
\* sent, the write engine runs exactly when the read engine runs; the step
\* in which one side handles a notification leaves the other side's handle,
\* coroutines and queues as they were; a handle changes, and a coroutine is
\* killed or forked, only in a step in which its own side handles a
\* notification.
C18_State ==
    (w_note = "none" /\ r_note = "none") =>
       /\ (write_cr # None) <=> (read_cr # None)
       /\ Alive(w_tasks) = {} <=> Alive(r_tasks) = {}
       /\ w_last = r_last

C18_Step ==
    /\ (w_note # "none" /\ w_note' = "none") =>
          UNCHANGED <<read_cr, r_tasks, ar_queue, r_queue, r_note>>
    /\ (r_note # "none" /\ r_note' = "none") =>
          UNCHANGED <<write_cr, w_tasks, aw_queue, w_queue, b_queue, w_note>>
    /\ (write_cr' # write_cr \/ Alive(w_tasks') # Alive(w_tasks)) =>
          w_note # "none" /\ w_note' = "none"
    /\ (read_cr' # read_cr \/ Alive(r_tasks') # Alive(r_tasks)) =>
          r_note # "none" /\ r_note' = "none"

C18_SharedReset == [](C18_State) /\ [][C18_Step]_vars

\* the write side has handled a reset assertion and killed its coroutine;
\* the read side, which has yet to handle the same assertion, still runs and
\* still holds the read-data beat it is sending
C18_Witness ==
    /\ w_note = "none" /\ w_last = "assert" /\ r_note = "assert"
    /\ write_cr = None /\ Len(w_tasks) = 1 /\ w_tasks[1].pc = "killed"
    /\ read_cr # None /\ r_tasks[read_cr].pc = "send" /\ Len(r_queue) = 1

\* C19: the step in which a read coroutine reads the store leaves every
\* store byte as it was, and so does every other step of the read side; a
\* store byte changes only in a write transaction's store step, and only at
\* the offset of a strobe-enabled lane, to that lane's data byte.
C19_Step ==
    /\ \A t \in DOMAIN r_tasks :
         IsStoreRead(t) =>
            \A s \in Stores : mems'[s].bytes = mems[s].bytes
    /\ (r_tasks' # r_tasks \/ ar_queue' # ar_queue \/ r_queue' # r_queue
          \/ r_log' # r_log \/ read_cr' # read_cr) => ~StoreChanged
    /\ StoreChanged =>
          \E t \in DOMAIN w_tasks :
             /\ IsStoreWrite(t)
             /\ \A s \in Stores, o \in 0..(size - 1) :
                  mems'[s].bytes[o] # mems[s].bytes[o] =>
                     /\ s = write_if_mem
                     /\ \E i \in 0..(byte_lanes - 1) :
                          /\ (Head(w_queue).wstrb \div (2^i)) % 2 = 1
                          /\ o = (w_tasks[t].addr + i) % size
                          /\ mems'[s].bytes[o] = Byte(Head(w_queue).wdata, i)

C19_ReadKeepsStore == [][C19_Step]_vars

\* two reads were served after a write: the first read-data beat was
\* transmitted, the second waits, and the store still holds the non-zero
\* word the second one returned
C19_Witness ==
    /\ ar_n = 2 /\ Len(r_log) = 1 /\ Len(r_queue) = 1
    /\ Head(r_queue).rdata # 0
    /\ Head(r_queue).rdata =
          LEValue(rmem.bytes, Floor(Head(r_queue).ar.araddr), byte_lanes)

\* C20: no step in which a reset notification is sent or handled changes a
\* store byte; a word written with full strobe stays in the store across
\* resets until it is written to again, although after a reset no response
\* of an earlier reset epoch is transmitted; a store update is made only by
\* the coroutine the handle names, with an address and a data beat admitted
\* after the last assertion, so a write cancelled before its data beat was
\* consumed never reaches the store.
C20_State ==
    /\ \A p \in 0..(size - 1) :
         full_word[p] # NoWord =>
            \A i \in 0..(byte_lanes - 1) :
               wmem.bytes[(p + i) % size] = Byte(full_word[p], i)
    /\ \A k \in 1..Len(b_log) : b_log[k].aw.ep = b_log[k].at

C20_Step ==
    /\ (w_note' # w_note \/ r_note' # r_note) => ~StoreChanged
    /\ (w_epoch' # w_epoch \/ r_epoch' # r_epoch) => ~StoreChanged
    /\ (write_cr' # write_cr \/ read_cr' # read_cr) => ~StoreChanged
    /\ StoreChanged =>
          /\ write_cr # None /\ IsStoreWrite(write_cr)
          /\ w_tasks[write_cr].aw.ep = w_epoch
          /\ Head(w_queue).tag.ep = w_epoch

C20_ResetKeepsStore == [](C20_State) /\ [][C20_Step]_vars

\* the only write, of D1 with full strobe at offset 0, updated the store and
\* its coroutine was killed while sending the response; the reset is over,
\* the restarted engine awaits an address, no response was ever transmitted
\* and the store still holds D1
C20_Witness ==
    /\ aw_n = 1 /\ w_n = 1 /\ w_epoch = 1 /\ w_last = "deassert"
    /\ b_log = <<>> /\ b_queue = <<>>
    /\ Len(w_tasks) = 2 /\ w_tasks[1].pc = "killed" /\ w_tasks[2].pc = "aw"
    /\ full_word[0] = D1
    /\ wmem.bytes[0] = Byte(D1, 0) /\ wmem.bytes[1] = Byte(D1, 1)
====
